---------------------------- MODULE Spec2Model ----------------------------
(***************************************************************************)
(* lykin: the synchronisation core.                                        *)
(*                                                                         *)
(* A task loop (task_loop.rs) receives tasks over an unbounded channel and *)
(* runs them one at a time against the local sbot (sbot.rs) and the sled   *)
(* key-value store (db.rs).  The web routes (routes.rs) read and write the *)
(* same store and send tasks into the channel.                             *)
(***************************************************************************)
EXTENDS Integers, Sequences, FiniteSets, TLC

(***************************************************************************)
(* Bounds of the model.                                                    *)
(***************************************************************************)
\* Number of messages in the feed of a peer (sequence numbers 1..MaxSeq).
MaxSeq == 3
\* Number of tasks the routes send into the channel in one run.
MaxTasks == 4
\* Number of tasks a client of the channel sends in one run (SpecTwo).
MaxSends == 3
\* Number of elements of a history stream the sbot delivers (SpecFetch).
MaxLen == 3
\* The calls of follow_if_not_following and unfollow_if_following on record.
MaxCalls == 3

\* Public keys that pass validate_public_key, in the key order of the store.
PeerOrder == <<"A", "B">>
PeerIds == {PeerOrder[i] : i \in 1..Len(PeerOrder)}
\* The public keys the user submits to the routes.
FormKeys == {"A"}
\* The names the sbot may return from getName.
Names == {"n1"}

VARIABLES
    peers,      \* peer_tree:  public key -> Peer
    posts,      \* post_tree:  <<public key, message key>> -> Post
    following,  \* sbot: does the local identity follow the peer
    feedLen,    \* sbot: number of messages replicated from the peer's feed
    peer_msgs,  \* sbot: the history stream it is about to deliver (SpecFetch)
    queue,      \* the channel: tasks sent and not yet received
    closed,     \* the channel: the receiver has been dropped
    cancelId,   \* the on_cancelId fairing has sent Cancel as the task of
                \* this number (0: it has not run)
    wstate,     \* the task loop: "Running", "Stopped" or "Panicked"
    pc,         \* the task loop: position in the code
    cur,        \* the task loop: the task being executed
    after,      \* fetch_posts_and_update_db: after_sequence
    latest,     \* fetch_posts_and_update_db: latest_sequence
    batch,      \* fetch_posts_and_update_db: root_posts
    lpeer,      \* the Peer read by get_peer, about to be written back
    new_name,   \* fetch_name_and_update_db: the name returned by get_name
    nsent,      \* history: number of tasks sent successfully
    ndone,      \* history: number of tasks the loop has received and is
                \* through with (finished, stopped on, or panicked in)
    written,    \* history: highest sequence of a post the loop has stored
    batchFailed,\* history: add_post_batch of the current task returned Err
    lastSend,   \* history: result of the last send ("none", "ok", "err")
    rpc_log,    \* history: the calls of follow_if_not_following and
                \* unfollow_if_following, oldest first (kept where .on)
    str_in,     \* SpecText: the string handed to a function of strings
    str_out,    \* SpecText: the function applied to str_in and its result
    marking     \* mark_post_read / mark_post_unread: the post returned by
                \* get_post, about to be written back (SpecMark)

vars == <<peers, posts, following, feedLen, peer_msgs, queue, closed, cancelId, wstate,
          pc, cur, after, latest, batch, lpeer, new_name, nsent, ndone, written,
          batchFailed, lastSend, rpc_log, str_in, str_out, marking>>

store == <<peers, posts>>
sbotv == <<following, feedLen, peer_msgs>>
chan == <<queue, closed, nsent, lastSend>>
locals == <<after, latest, batch, lpeer, new_name>>
texts == <<str_in, str_out>>

(***************************************************************************)
(* db.rs: records and store operations.                                    *)
(***************************************************************************)
\* Peer::new: the name is empty and nothing has been ingested.
PeerNew == [name |-> "", latest_sequence |-> 0]

set_name(peer, name) == [peer EXCEPT !.name = name]

set_latest_sequence(peer, seq) == [peer EXCEPT !.latest_sequence = seq]

\* Post::new: a new post is unread.
PostNew(key, sequence) == [key |-> key, sequence |-> sequence, read |-> FALSE]

\* An insert that leaves an entry that is already there as it is.
InsertIfAbsent(tree, k, v) ==
    [x \in DOMAIN tree \cup {k} |-> IF x \in DOMAIN tree THEN tree[x] ELSE v]

\* tree.insert: overwrite or create the entry of key k.
Insert(tree, k, v) == [x \in DOMAIN tree \cup {k} |-> IF x = k THEN v ELSE tree[x]]

\* tree.remove: drop the entry of key k, if any.
Remove(tree, k) == [x \in DOMAIN tree \ {k} |-> tree[x]]

add_peer(tree, public_key, peer) == Insert(tree, public_key, peer)

\* A removal that takes the posts of the peer along.
remove_peer_and_posts(db, public_key) ==
    <<Remove(db[1], public_key),
      [k \in {x \in DOMAIN db[2] : x[1] # public_key} |-> db[2][k]]>>

\* Database::remove_peer: db is <<peer_tree, post_tree>>; only the peer tree
\* is touched.
remove_peer(db, public_key) == <<Remove(db[1], public_key), db[2]>>

add_post(tree, public_key, post) == Insert(tree, <<public_key, post.key>>, post)

remove_post(tree, public_key, key) == Remove(tree, <<public_key, key>>)

\* add_post_batch: the posts are inserted in the order of the vector, so
\* that a later post with the same key wins.
RECURSIVE add_post_batch(_, _, _)
add_post_batch(tree, public_key, ps) ==
    IF ps = <<>> THEN tree
    ELSE add_post_batch(add_post(tree, public_key, Head(ps)), public_key, Tail(ps))

\* A read that makes up a fresh record for a key the tree does not hold.
get_peer_or_default(tree, public_key) ==
    IF public_key \in DOMAIN tree THEN <<tree[public_key]>> ELSE <<PeerNew>>

\* get_peer: Some(peer) is <<peer>>, None is <<>>.
get_peer(tree, public_key) ==
    IF public_key \in DOMAIN tree THEN <<tree[public_key]>> ELSE <<>>

\* get_peers: the public keys of the stored peers, in key order.
InPeerTree(p) == p \in DOMAIN peers

get_peers == SelectSeq(PeerOrder, InPeerTree)

\* get_post: the stored post, if any.
has_post(public_key, key) == <<public_key, key>> \in DOMAIN posts

(***************************************************************************)
(* The sbot (gateway).                                                     *)
(***************************************************************************)
\* The i-th message of a feed: every second message is a reply (a post with
\* a root), every fourth one is not a post.
MsgAt(i) ==
    [key |-> i, sequence |-> i,
     type |-> IF i % 4 = 0 THEN "about" ELSE "post",
     root |-> (i % 2 = 0)]

ErrElem == [key |-> 0, sequence |-> 0, type |-> "err", root |-> FALSE]

RECURSIVE FeedFrom(_, _)
FeedFrom(i, n) == IF i > n THEN <<>> ELSE <<MsgAt(i)>> \o FeedFrom(i + 1, n)

\* createHistoryStream: the replicated messages of the peer after the given
\* sequence number, possibly preceded by an error element.
Streams(public_key, sequence_number) ==
    LET s == FeedFrom(sequence_number + 1, feedLen[public_key])
    IN  {s, <<ErrElem>> \o s}

\* A filter that keeps replies: the test for the root field is missing.
IsAnyPost(msg) == msg.type = "post"

\* get_root_posts: a message of type post whose content has no root.
IsRootPost(msg) == msg.type = "post" /\ ~msg.root

\* A fold that gives up at the first error element of the stream.
RECURSIVE RootPostsFoldAbort(_, _)
RootPostsFoldAbort(acc, s) ==
    IF s = <<>> \/ Head(s).type = "err" THEN acc
    ELSE LET msg == Head(s)
             take == msg.type = "post" /\ ~msg.root
         IN  RootPostsFoldAbort(
                 IF take
                 THEN <<msg.sequence, Append(acc[2], PostNew(msg.key, msg.sequence))>>
                 ELSE acc,
                 Tail(s))

\* get_root_posts: fold over the stream.  acc = <<latest_sequence, posts>>.
RECURSIVE RootPostsFold(_, _)
RootPostsFold(acc, s) ==
    IF s = <<>> THEN acc
    ELSE LET msg == Head(s)
             take == IsRootPost(msg)
         IN  RootPostsFold(
                 IF take
                 THEN <<msg.sequence, Append(acc[2], PostNew(msg.key, msg.sequence))>>
                 ELSE acc,
                 Tail(s))

\* A filter that reports the sequence of the first root post it has seen.
get_root_posts_first(history_stream) ==
    LET r == RootPostsFold(<<0, <<>>>>, history_stream)
    IN  <<IF r[2] = <<>> THEN 0 ELSE r[2][1].sequence, r[2]>>

get_root_posts(history_stream) == RootPostsFold(<<0, <<>>>>, history_stream)

\* What goes wrong in the sbot during one call of follow_if_not_following or
\* unfollow_if_following: nothing, the whoami call fails, the isFollowing
\* call fails, isFollowing returns an unrecognised string, or the follow /
\* unfollow call fails.
SbotFaults == {"none", "whoami", "isfollowing", "garbage", "rpc"}

\* is_following: Ok("true"), Ok("false"), Ok of another string, or Err.
is_following(public_key, fault) ==
    IF fault = "isfollowing" THEN "err"
    ELSE IF fault = "garbage" THEN "garbage"
    ELSE IF following[public_key] THEN "true" ELSE "false"

\* The follow status as the two functions see it: the whoami call failed,
\* or what is_following returned.
follow_status(remote_peer, fault) ==
    IF fault = "whoami" THEN "whoami_err" ELSE is_following(remote_peer, fault)

\* A follow_if_not_following that calls follow_peer whenever the status is
\* known, also for a peer that is followed already.
follow_always(remote_peer, fault) ==
    IF fault = "whoami" THEN <<FALSE, following[remote_peer], FALSE>>
    ELSE IF is_following(remote_peer, fault) \in {"false", "true"}
         THEN (IF fault # "rpc"
               THEN <<TRUE, TRUE, TRUE>>
               ELSE <<FALSE, following[remote_peer], TRUE>>)
    ELSE <<FALSE, following[remote_peer], FALSE>>

\* follow_if_not_following:
\* <<ok, following after the call, follow_peer has been called>>.
follow_if_not_following(remote_peer, fault) ==
    IF fault = "whoami" THEN <<FALSE, following[remote_peer], FALSE>>
    ELSE IF is_following(remote_peer, fault) = "false"
         THEN (IF fault # "rpc"
               THEN <<TRUE, TRUE, TRUE>>
               ELSE <<FALSE, following[remote_peer], TRUE>>)
    ELSE IF is_following(remote_peer, fault) = "true"
         THEN <<TRUE, following[remote_peer], FALSE>>
    ELSE <<FALSE, following[remote_peer], FALSE>>

\* An unfollow_if_following that calls unfollow_peer unless the status is
\* known to be "false".
unfollow_blind(remote_peer, fault) ==
    IF fault \in {"whoami", "isfollowing", "garbage"}
    THEN <<TRUE, FALSE, TRUE>>
    ELSE IF is_following(remote_peer, fault) = "true"
         THEN (IF fault # "rpc"
               THEN <<TRUE, FALSE, TRUE>>
               ELSE <<FALSE, following[remote_peer], TRUE>>)
    ELSE <<FALSE, following[remote_peer], FALSE>>

\* unfollow_if_following:
\* <<ok, following after the call, unfollow_peer has been called>>.
unfollow_if_following(remote_peer, fault) ==
    IF fault = "whoami" THEN <<FALSE, following[remote_peer], FALSE>>
    ELSE IF is_following(remote_peer, fault) = "true"
         THEN (IF fault # "rpc"
               THEN <<TRUE, FALSE, TRUE>>
               ELSE <<FALSE, following[remote_peer], TRUE>>)
    ELSE <<FALSE, following[remote_peer], FALSE>>

\* The history of the calls of the two functions.
NoLog == [on |-> FALSE, calls |-> <<>>]

LogHasRoom == ~rpc_log.on \/ Len(rpc_log.calls) < MaxCalls

\* One call: the function, its argument, what went wrong in the sbot, the
\* status it saw, whether it called follow_peer / unfollow_peer, its result.
CallEntry(call, remote_peer, fault, res) ==
    [call |-> call, peer |-> remote_peer, fault |-> fault,
     status |-> follow_status(remote_peer, fault), rpc |-> res[3], ok |-> res[1]]

Logged(entry) ==
    IF rpc_log.on THEN [rpc_log EXCEPT !.calls = Append(@, entry)] ELSE rpc_log

(***************************************************************************)
(* The channel and the tasks.                                              *)
(***************************************************************************)
NoTask == [kind |-> "None", peer |-> "", id |-> 0]

Task(kind, peer, id) == [kind |-> kind, peer |-> peer, id |-> id]

NoPeer == [name |-> "", latest_sequence |-> 0]

\* No request to mark a post is between its get_post and its add_post.
NoMark == [public_key |-> "", post |-> <<>>]

\* No function of strings has been applied.
NoResult == [fn |-> "none", val |-> <<>>]

\* tx.send of the tasks ts, one after the other: on a closed channel every
\* send returns an error and nothing is queued.  ts holds <<kind, peer>>.
RECURSIVE Ticketed(_, _)
Ticketed(ts, n) ==
    IF ts = <<>> THEN <<>>
    ELSE <<Task(Head(ts)[1], Head(ts)[2], n + 1)>> \o Ticketed(Tail(ts), n + 1)

\* A channel that accepts tasks although nobody receives them any more.
SendNeverFails == FALSE

\* A channel of capacity one: a send is refused while a task is waiting.
SendFailsWhenFull == closed \/ queue # <<>>

\* A send fails once the receiver has been dropped.
SendFails == closed

SendAll(ts) ==
    IF ts = <<>> THEN UNCHANGED chan
    ELSE IF SendFails
         THEN /\ lastSend' = "err"
              /\ UNCHANGED <<queue, closed, nsent>>
         ELSE /\ queue' = queue \o Ticketed(ts, nsent)
              /\ nsent' = nsent + Len(ts)
              /\ lastSend' = "ok"
              /\ UNCHANGED closed

Init ==
    /\ peers = [p \in {} |-> PeerNew]
    /\ posts = [k \in {} |-> PostNew(0, 0)]
    /\ following = [p \in PeerIds |-> FALSE]
    /\ feedLen = [p \in PeerIds |-> 0]
    /\ peer_msgs = <<>>
    /\ queue = <<>>
    /\ closed = FALSE
    /\ cancelId = 0
    /\ wstate = "Running"
    /\ pc = "recv"
    /\ cur = NoTask
    /\ after = 0
    /\ latest = 0
    /\ batch = <<>>
    /\ lpeer = NoPeer
    /\ new_name = ""
    /\ nsent = 0
    /\ ndone = 0
    /\ written = [p \in PeerIds |-> 0]
    /\ batchFailed = FALSE
    /\ lastSend = "none"
    /\ rpc_log = NoLog
    /\ str_in = <<>>
    /\ str_out = NoResult
    /\ marking = NoMark

Max(a, b) == IF a >= b THEN a ELSE b

RECURSIVE MaxSequence(_)
MaxSequence(ps) ==
    IF ps = <<>> THEN 0 ELSE Max(Head(ps).sequence, MaxSequence(Tail(ps)))

(***************************************************************************)
(* task_loop.rs: the task loop.                                            *)
(***************************************************************************)
\* The current task is over: back to rx.recv().
TaskDone ==
    /\ pc' = "recv"
    /\ cur' = NoTask
    /\ ndone' = ndone + 1
    /\ after' = 0
    /\ latest' = 0
    /\ batch' = <<>>
    /\ lpeer' = NoPeer
    /\ new_name' = ""
    /\ batchFailed' = FALSE

\* An unwrap() on an Err: the spawned task is torn down and the receiver is
\* dropped with it.
Panic ==
    /\ wstate' = "Panicked"
    /\ pc' = "exit"
    /\ closed' = TRUE
    /\ cur' = NoTask
    /\ ndone' = ndone + 1
    /\ after' = 0
    /\ latest' = 0
    /\ batch' = <<>>
    /\ lpeer' = NoPeer
    /\ new_name' = ""
    /\ batchFailed' = FALSE

\* A Cancel arm without the break: the loop goes on receiving.
AfterCancelNoBreak == [wstate |-> "Stopped", pc |-> "recv", closed |-> FALSE]

\* Task::Cancel => break: the loop is left and the receiver is dropped.
AfterCancel == [wstate |-> "Stopped", pc |-> "exit", closed |-> TRUE]

\* A channel that hands out the newest task first.
recv_newest(q) == <<q[Len(q)], SubSeq(q, 1, Len(q) - 1)>>

\* rx.recv(): the oldest task in the channel, and the tasks left in it.
recv(q) == <<Head(q), Tail(q)>>

\* A fetch of the latest posts that starts over from the first message.
after_sequence_start(peer) == 0

\* Task::FetchLatestPosts: the after_sequence passed on is peer.latest_sequence.
after_sequence_of(peer) == peer.latest_sequence

\* while let Ok(task) = rx.recv().await { match task { ... } }
Recv ==
    /\ pc = "recv"
    /\ queue # <<>>
    /\ LET task == recv(queue)[1] IN
       /\ queue' = recv(queue)[2]
       /\ CASE task.kind = "FetchAllPosts" ->
                 /\ cur' = task
                 /\ after' = 0
                 /\ pc' = "stream"
                 /\ UNCHANGED <<wstate, closed, ndone, latest, batch, lpeer,
                                new_name, batchFailed>>
            [] task.kind = "FetchLatestPosts" ->
                 \E readOk \in BOOLEAN :
                    IF ~readOk
                    THEN Panic
                    ELSE IF get_peer(peers, task.peer) # <<>>
                    THEN /\ cur' = task
                         /\ after' = after_sequence_of(get_peer(peers, task.peer)[1])
                         /\ pc' = "stream"
                         /\ UNCHANGED <<wstate, closed, ndone, latest, batch,
                                        lpeer, new_name, batchFailed>>
                    ELSE /\ TaskDone
                         /\ UNCHANGED <<wstate, closed>>
            [] task.kind = "FetchLatestName" ->
                 /\ cur' = task
                 /\ pc' = "getname"
                 /\ UNCHANGED <<wstate, closed, ndone, locals, batchFailed>>
            [] task.kind = "Cancel" ->
                 /\ wstate' = AfterCancel.wstate
                 /\ pc' = AfterCancel.pc
                 /\ closed' = AfterCancel.closed
                 /\ ndone' = ndone + 1
                 /\ UNCHANGED <<cur, locals, batchFailed>>
    /\ UNCHANGED <<store, sbotv, rpc_log, texts, marking, cancelId, nsent, written, lastSend>>

\* fetch_posts_and_update_db: get_message_stream and get_root_posts, when
\* the sbot delivers one of the streams S.
FetchFrom(S) ==
    /\ pc = "stream"
    /\ \E sbotOk \in BOOLEAN :
          IF ~sbotOk
          THEN Panic
          ELSE \E s \in S :
                  /\ latest' = get_root_posts(s)[1]
                  /\ batch' = get_root_posts(s)[2]
                  /\ pc' = "batch"
                  /\ after' = 0
                  /\ UNCHANGED <<wstate, closed, cur, lpeer, new_name, ndone,
                                 batchFailed>>
    /\ UNCHANGED <<store, sbotv, rpc_log, texts, marking, queue, cancelId, nsent, written, lastSend>>

\* The sbot delivers the replicated feed of the peer.
FetchStream == FetchFrom(Streams(cur.peer, after))

\* The sbot delivers the stream peer_msgs.
FetchGiven == FetchFrom({peer_msgs})

\* fetch_posts_and_update_db: db.add_post_batch, its error is only logged.
StoreBatch ==
    /\ pc = "batch"
    /\ \E storeOk \in BOOLEAN :
          /\ IF storeOk
             THEN /\ posts' = add_post_batch(posts, cur.peer, batch)
                  /\ written' = [written EXCEPT
                                   ![cur.peer] = Max(@, MaxSequence(batch))]
             ELSE UNCHANGED <<posts, written>>
          /\ batchFailed' = ~storeOk
    /\ pc' = "getpeer"
    /\ batch' = <<>>
    /\ UNCHANGED <<peers, sbotv, rpc_log, texts, marking, chan, cancelId, wstate, cur, after, latest,
                   lpeer, new_name, ndone>>

\* fetch_posts_and_update_db: if let Ok(Some(peer)) = db.get_peer(..)
GetPeer ==
    /\ pc = "getpeer"
    /\ \E readOk \in BOOLEAN :
          IF ~readOk
          THEN Panic
          ELSE IF get_peer(peers, cur.peer) # <<>>
          THEN /\ lpeer' = set_latest_sequence(get_peer(peers, cur.peer)[1], latest)
               /\ pc' = "addpeer"
               /\ latest' = 0
               /\ UNCHANGED <<wstate, closed, cur, after, batch, new_name, ndone,
                              batchFailed>>
          ELSE TaskDone /\ UNCHANGED <<wstate, closed>>
    /\ UNCHANGED <<store, sbotv, rpc_log, texts, marking, queue, cancelId, nsent, written, lastSend>>

\* fetch_posts_and_update_db: db.add_peer(..).unwrap()
AddPeer ==
    /\ pc = "addpeer"
    /\ \E storeOk \in BOOLEAN :
          IF storeOk
          THEN /\ peers' = add_peer(peers, cur.peer, lpeer)
               /\ TaskDone
               /\ UNCHANGED <<wstate, closed>>
          ELSE Panic /\ UNCHANGED peers
    /\ UNCHANGED <<posts, sbotv, rpc_log, texts, marking, queue, cancelId, nsent, written, lastSend>>

\* A name request whose failure is not caught.
get_name_unwrap(reply) == "panic"

\* match sbot::get_name(..): Ok(name) goes on, Err(e) is logged.
get_name_result(reply) == IF reply = "err" THEN "logged" ELSE "ok"

\* fetch_name_and_update_db: sbot::get_name.
GetName ==
    /\ pc = "getname"
    /\ \E reply \in Names \cup {"err"} :
          CASE get_name_result(reply) = "ok" ->
                 /\ new_name' = reply
                 /\ pc' = "name_getpeer"
                 /\ UNCHANGED <<wstate, closed, cur, after, latest, batch,
                                lpeer, ndone, batchFailed>>
            [] get_name_result(reply) = "logged" ->
                 TaskDone /\ UNCHANGED <<wstate, closed>>
            [] OTHER -> Panic
    /\ UNCHANGED <<store, sbotv, rpc_log, texts, marking, queue, cancelId, nsent, written, lastSend>>

\* fetch_name_and_update_db: if let Ok(Some(peer)) = db.get_peer(..)
NameGetPeer ==
    /\ pc = "name_getpeer"
    /\ \E readOk \in BOOLEAN :
          IF ~readOk
          THEN Panic
          ELSE IF get_peer(peers, cur.peer) # <<>>
          THEN /\ lpeer' = set_name(get_peer(peers, cur.peer)[1], new_name)
               /\ pc' = "name_addpeer"
               /\ new_name' = ""
               /\ UNCHANGED <<wstate, closed, cur, after, latest, batch, ndone,
                              batchFailed>>
          ELSE TaskDone /\ UNCHANGED <<wstate, closed>>
    /\ UNCHANGED <<store, sbotv, rpc_log, texts, marking, queue, cancelId, nsent, written, lastSend>>

\* fetch_name_and_update_db: db.add_peer(updated_peer), its error is logged.
NameAddPeer ==
    /\ pc = "name_addpeer"
    /\ \E storeOk \in BOOLEAN :
          IF storeOk
          THEN peers' = add_peer(peers, cur.peer, lpeer)
          ELSE UNCHANGED peers
    /\ TaskDone
    /\ UNCHANGED <<posts, sbotv, rpc_log, texts, marking, chan, cancelId, wstate, written>>

Worker ==
    \/ Recv \/ FetchStream \/ StoreBatch \/ GetPeer \/ AddPeer
    \/ GetName \/ NameGetPeer \/ NameAddPeer

(***************************************************************************)
(* Strings.  A string is a sequence of runs <<c, n>>: the unit c, n times. *)
(* The units are the characters '@', '.', 'b' (one byte each), the         *)
(* character U+00E9 (two bytes in UTF-8) and the word "ed25519".           *)
(***************************************************************************)
\* The bytes and the characters of one unit.
Utf8Len(c) == IF c = "U+00E9" THEN 2 ELSE IF c = "ed25519" THEN 7 ELSE 1

CharLen(c) == IF c = "ed25519" THEN 7 ELSE 1

\* str::len: the length in bytes.
RECURSIVE ByteLen(_)
ByteLen(s) ==
    IF s = <<>> THEN 0 ELSE Head(s)[2] * Utf8Len(Head(s)[1]) + ByteLen(Tail(s))

\* str::chars().count()
RECURSIVE CharCount(_)
CharCount(s) ==
    IF s = <<>> THEN 0 ELSE Head(s)[2] * CharLen(Head(s)[1]) + CharCount(Tail(s))

\* str::starts_with(char)
starts_with(s, c) == s # <<>> /\ s[1][1] = c

\* str::rfind(char), for a one-byte character: the byte index of its last
\* occurrence as <<index>>, or <<>>.
rfind(s, c) ==
    LET at == {i \in 1..Len(s) : s[i][1] = c}
    IN  IF at = {} THEN <<>>
        ELSE <<ByteLen(SubSeq(s, 1, CHOOSE i \in at : \A j \in at : j <= i)) - 1>>

\* str::ends_with(".ed25519")
ends_with_ed25519(s) ==
    /\ Len(s) >= 2
    /\ s[Len(s)] = <<"ed25519", 1>>
    /\ s[Len(s) - 1][1] = "."

\* The length validate_public_key asks of the base64 part.
KeyBodyLen == 44

\* utils.rs, validate_public_key: "ok" or the error.  The base64 part is
\* &public_key[1..dot_index], and its len() is dot_index - 1 bytes.
validate_public_key(public_key) ==
    IF ~starts_with(public_key, "@") THEN "err_sigil"
    ELSE IF rfind(public_key, ".") = <<>> THEN "err_dot"
    ELSE IF ~ends_with_ed25519(public_key) THEN "err_tag"
    ELSE IF rfind(public_key, ".")[1] - 1 # KeyBodyLen THEN "err_len"
    ELSE "ok"

\* str::get(0..k): <<the first k bytes>>, or <<>> when the string is shorter
\* than k bytes or byte k is not at a character boundary.  For strings
\* written with single characters.
RECURSIVE get_prefix(_, _)
get_prefix(s, k) ==
    IF k = 0 THEN <<<<>>>>
    ELSE IF s = <<>> THEN <<>>
    ELSE LET c == Head(s)[1]
             bytes == Head(s)[2] * Utf8Len(c)
             rest == get_prefix(Tail(s), k - bytes)
         IN  IF bytes <= k
             THEN (IF rest = <<>> THEN <<>> ELSE <<<<Head(s)>> \o rest[1]>>)
             ELSE IF k % Utf8Len(c) = 0 THEN <<<<<<c, k \div Utf8Len(c)>>>>>>
             ELSE <<>>

\* The bytes get_root_posts takes of the text of a post as its subject.
SubjectLen == 52

\* sbot.rs, get_root_posts: subject = text.get(0..52).map(|s| s.to_string())
subject(text) == get_prefix(text, SubjectLen)

\* The text of the public keys the forms are filled in with: the key of the
\* peer A, and a key without the sigil.
BadKeys == {"bad"}

KeyText ==
    [p \in FormKeys \cup BadKeys |->
        IF p \in BadKeys
        THEN <<<<"b", 44>>, <<".", 1>>, <<"ed25519", 1>>>>
        ELSE <<<<"@", 1>>, <<"b", 44>>, <<".", 1>>, <<"ed25519", 1>>>>]

(***************************************************************************)
(* routes.rs: the web routes, and the cancelId fairing of main.rs.         *)
(***************************************************************************)
\* A subscribe_form that does not look at the results of
\* follow_if_not_following and add_peer before it goes on.
subscribe_form_unchecked(p) ==
    /\ validate_public_key(KeyText[p]) = "ok"
    /\ nsent < MaxTasks
    /\ LogHasRoom
    /\ \E nameReply \in Names \cup {"err"}, fault \in SbotFaults,
          storeOk \in BOOLEAN :
          LET peer_name == IF nameReply = "err" THEN "" ELSE nameReply
              peer_info == set_name(PeerNew, peer_name)
              fol == follow_if_not_following(p, fault)
          IN  /\ following' = [following EXCEPT ![p] = fol[2]]
              /\ rpc_log' = Logged(CallEntry("follow", p, fault, fol))
              /\ peers' = (IF storeOk THEN add_peer(peers, p, peer_info) ELSE peers)
              /\ SendAll(<<<<"FetchAllPosts", p>>>>)
    /\ UNCHANGED <<posts, feedLen, peer_msgs, texts, marking, cancelId, wstate, pc, cur, locals,
                   ndone, written, batchFailed>>

\* subscribe_form: an invalid public key is answered with an error message
\* before anything else is done.
subscribe_form(p) ==
    /\ validate_public_key(KeyText[p]) = "ok"
    /\ nsent < MaxTasks
    /\ LogHasRoom
    /\ \E nameReply \in Names \cup {"err"}, fault \in SbotFaults,
          storeOk \in BOOLEAN :
          LET peer_name == IF nameReply = "err" THEN "" ELSE nameReply
              peer_info == set_name(PeerNew, peer_name)
              fol == follow_if_not_following(p, fault)
          IN  /\ following' = [following EXCEPT ![p] = fol[2]]
              /\ rpc_log' = Logged(CallEntry("follow", p, fault, fol))
              /\ IF fol[1] /\ storeOk
                 THEN /\ peers' = add_peer(peers, p, peer_info)
                      /\ SendAll(<<<<"FetchAllPosts", p>>>>)
                 ELSE UNCHANGED <<peers, chan>>
    /\ UNCHANGED <<posts, feedLen, peer_msgs, texts, marking, cancelId, wstate, pc, cur, locals,
                   ndone, written, batchFailed>>

\* unsubscribe_form: an invalid public key is answered with an error message
\* before anything else is done.
unsubscribe_form(p) ==
    /\ validate_public_key(KeyText[p]) = "ok"
    /\ LogHasRoom
    /\ \E fault \in SbotFaults, storeOk \in BOOLEAN :
          LET unf == unfollow_if_following(p, fault)
          IN  /\ following' = [following EXCEPT ![p] = unf[2]]
              /\ rpc_log' = Logged(CallEntry("unfollow", p, fault, unf))
              /\ IF unf[1] /\ storeOk
                 THEN /\ peers' = remove_peer(store, p)[1]
                      /\ posts' = remove_peer(store, p)[2]
                 ELSE UNCHANGED store
    /\ UNCHANGED <<feedLen, peer_msgs, texts, marking, chan, cancelId, wstate, pc, cur,
                   locals, ndone, written, batchFailed>>

\* The tasks download_latest_posts sends for the peers ps.
RECURSIVE LatestTasks(_)
LatestTasks(ps) ==
    IF ps = <<>> THEN <<>>
    ELSE <<<<"FetchLatestPosts", Head(ps)>>, <<"FetchLatestName", Head(ps)>>>>
         \o LatestTasks(Tail(ps))

download_latest_posts ==
    /\ get_peers # <<>>
    /\ nsent + 2 * Len(get_peers) <= MaxTasks
    /\ SendAll(LatestTasks(get_peers))
    /\ UNCHANGED <<store, sbotv, rpc_log, texts, marking, cancelId, wstate, pc, cur, locals, ndone, written, batchFailed>>

\* mark_post_read / mark_post_unread, first half: db.get_post finds the post
\* and the handler sets the flag of its copy.  (Without the post the handler
\* logs a warning and is done.)
mark_get_post(public_key, msg_id, read) ==
    /\ marking = NoMark
    /\ has_post(public_key, msg_id)
    /\ marking' = [public_key |-> public_key,
                   post |-> <<[posts[<<public_key, msg_id>>] EXCEPT !.read = read]>>]
    /\ UNCHANGED <<store, sbotv, rpc_log, texts, chan, cancelId, wstate, pc, cur,
                   locals, ndone, written, batchFailed>>

\* mark_post_read / mark_post_unread, second half:
\* db.add_post(public_key, post).unwrap()
mark_add_post ==
    /\ marking # NoMark
    /\ \E storeOk \in BOOLEAN :
          IF storeOk
          THEN posts' = add_post(posts, marking.public_key, marking.post[1])
          ELSE UNCHANGED posts
    /\ marking' = NoMark
    /\ UNCHANGED <<peers, sbotv, rpc_log, texts, chan, cancelId, wstate, pc, cur,
                   locals, ndone, written, batchFailed>>

\* mark_post_read with no other store operation between its get_post and its
\* add_post.
mark_post_read(public_key, msg_id) ==
    /\ has_post(public_key, msg_id)
    /\ posts' = add_post(posts, public_key,
                         [posts[<<public_key, msg_id>>] EXCEPT !.read = TRUE])
    /\ UNCHANGED <<peers, sbotv, rpc_log, texts, marking, chan, cancelId, wstate, pc, cur, locals,
                   ndone, written, batchFailed>>

\* mark_post_unread with no other store operation between its get_post and
\* its add_post.
mark_post_unread(public_key, msg_id) ==
    /\ has_post(public_key, msg_id)
    /\ posts' = add_post(posts, public_key,
                         [posts[<<public_key, msg_id>>] EXCEPT !.read = FALSE])
    /\ UNCHANGED <<peers, sbotv, rpc_log, texts, marking, chan, cancelId, wstate, pc, cur, locals,
                   ndone, written, batchFailed>>

delete_post(public_key, msg_id) ==
    /\ has_post(public_key, msg_id)
    /\ posts' = remove_post(posts, public_key, msg_id)
    /\ UNCHANGED <<peers, sbotv, rpc_log, texts, marking, chan, cancelId, wstate, pc, cur, locals,
                   ndone, written, batchFailed>>

\* on_cancelId: tx_clone.send(Task::Cancel).await.unwrap()
Shutdown ==
    /\ cancelId = 0
    /\ cancelId' = (IF closed THEN nsent ELSE nsent + 1)
    /\ SendAll(<<<<"Cancel", "">>>>)
    /\ UNCHANGED <<store, sbotv, rpc_log, texts, marking, wstate, pc, cur, locals, ndone, written, batchFailed>>

\* The sbot replicates one more message of the peer's feed.
Replicate(p) ==
    /\ feedLen[p] < MaxSeq
    /\ feedLen' = [feedLen EXCEPT ![p] = @ + 1]
    /\ UNCHANGED <<store, following, peer_msgs, rpc_log, texts, marking, chan, cancelId, wstate, pc, cur,
                   locals, ndone, written, batchFailed>>

MsgIds == 1..MaxSeq

Next ==
    \/ Recv
    \/ FetchStream
    \/ StoreBatch
    \/ GetPeer
    \/ AddPeer
    \/ GetName
    \/ NameGetPeer
    \/ NameAddPeer
    \/ \E p \in FormKeys : subscribe_form(p)
    \/ \E p \in FormKeys : unsubscribe_form(p)
    \/ download_latest_posts
    \/ \E p \in FormKeys, k \in MsgIds : mark_post_read(p, k)
    \/ \E p \in FormKeys, k \in MsgIds : mark_post_unread(p, k)
    \/ \E p \in FormKeys, k \in MsgIds : delete_post(p, k)
    \/ Shutdown
    \/ \E p \in FormKeys : Replicate(p)

Spec == Init /\ [][Next]_vars

(***************************************************************************)
(* The task loop alone, for two peers: the store holds both peers from an  *)
(* earlier run of the program, and a client of the channel sends any task. *)
(***************************************************************************)
TaskKinds == {"FetchAllPosts", "FetchLatestPosts", "FetchLatestName"}

\* tx.send(task).await
Send(kind, p) ==
    /\ nsent < MaxSends
    /\ SendAll(<<<<kind, p>>>>)
    /\ UNCHANGED <<store, sbotv, rpc_log, texts, marking, cancelId, wstate, pc, cur, locals, ndone, written, batchFailed>>

InitTwo ==
    /\ peers = [p \in PeerIds |-> PeerNew]
    /\ posts = [k \in {} |-> PostNew(0, 0)]
    /\ following = [p \in PeerIds |-> TRUE]
    /\ feedLen = [p \in PeerIds |-> 0]
    /\ peer_msgs = <<>>
    /\ queue = <<>>
    /\ closed = FALSE
    /\ cancelId = 0
    /\ wstate = "Running"
    /\ pc = "recv"
    /\ cur = NoTask
    /\ after = 0
    /\ latest = 0
    /\ batch = <<>>
    /\ lpeer = NoPeer
    /\ new_name = ""
    /\ nsent = 0
    /\ ndone = 0
    /\ written = [p \in PeerIds |-> 0]
    /\ batchFailed = FALSE
    /\ lastSend = "none"
    /\ rpc_log = NoLog
    /\ str_in = <<>>
    /\ str_out = NoResult
    /\ marking = NoMark

NextTwo ==
    \/ Recv
    \/ FetchStream
    \/ StoreBatch
    \/ GetPeer
    \/ AddPeer
    \/ GetName
    \/ NameGetPeer
    \/ NameAddPeer
    \/ \E kind \in TaskKinds, p \in PeerIds : Send(kind, p)
    \/ Shutdown
    \/ \E p \in PeerIds : Replicate(p)

SpecTwo == InitTwo /\ [][NextTwo]_vars

(***************************************************************************)
(* One fetch task alone, against an sbot that may deliver any stream: the  *)
(* elements in any order, repeated, out of the range asked for, or errors. *)
(***************************************************************************)
\* The elements of a stream: a root post, a reply or a message of another
\* type for each sequence number, and the error element.
AnyMsgs ==
    {[key |-> i, sequence |-> i, type |-> "post", root |-> FALSE] : i \in 1..MaxSeq}
    \cup {[key |-> i, sequence |-> i, type |-> "post", root |-> TRUE] : i \in 1..MaxSeq}
    \cup {[key |-> i, sequence |-> i, type |-> "about", root |-> FALSE] : i \in 1..MaxSeq}
    \cup {ErrElem}

AnyStreams == UNION {[1..n -> AnyMsgs] : n \in 0..MaxLen}

\* The store holds the subscribed peer A, whose posts were fetched up to
\* sequence 0 or 1 and are deleted again; one fetch task for A is queued.
InitFetch ==
    /\ \E seq \in {0, 1} :
          peers = [p \in {"A"} |-> set_latest_sequence(PeerNew, seq)]
    /\ posts = [k \in {} |-> PostNew(0, 0)]
    /\ following = [p \in PeerIds |-> p = "A"]
    /\ feedLen = [p \in PeerIds |-> 0]
    /\ peer_msgs \in AnyStreams
    /\ \E kind \in {"FetchAllPosts", "FetchLatestPosts"} :
          queue = <<Task(kind, "A", 1)>>
    /\ closed = FALSE
    /\ cancelId = 0
    /\ wstate = "Running"
    /\ pc = "recv"
    /\ cur = NoTask
    /\ after = 0
    /\ latest = 0
    /\ batch = <<>>
    /\ lpeer = NoPeer
    /\ new_name = ""
    /\ nsent = 1
    /\ ndone = 0
    /\ written = [p \in PeerIds |-> 0]
    /\ batchFailed = FALSE
    /\ lastSend = "ok"
    /\ rpc_log = NoLog
    /\ str_in = <<>>
    /\ str_out = NoResult
    /\ marking = NoMark

NextFetch ==
    \/ Recv
    \/ FetchGiven
    \/ StoreBatch
    \/ GetPeer
    \/ AddPeer

SpecFetch == InitFetch /\ [][NextFetch]_vars

(***************************************************************************)
(* The post tree under a fetch task and the read / unread routes: the      *)
(* store holds posts of the peer A from earlier fetches, all read, and a   *)
(* FetchAllPosts task for A is about to store its batch.                   *)
(***************************************************************************)
\* The batches get_root_posts can return: root posts in any order, repeated.
AnyBatches == UNION {[1..n -> {PostNew(i, i) : i \in 1..MaxSeq}] : n \in 0..MaxLen}

InitStore ==
    /\ peers = [p \in {"A"} |-> PeerNew]
    /\ \E n \in 0..MaxSeq :
          posts = [k \in {<<"A", i>> : i \in 1..n} |->
                      [PostNew(k[2], k[2]) EXCEPT !.read = TRUE]]
    /\ following = [p \in PeerIds |-> p = "A"]
    /\ feedLen = [p \in PeerIds |-> 0]
    /\ peer_msgs = <<>>
    /\ queue = <<>>
    /\ closed = FALSE
    /\ cancelId = 0
    /\ wstate = "Running"
    /\ pc = "batch"
    /\ cur = Task("FetchAllPosts", "A", 1)
    /\ after = 0
    /\ batch \in AnyBatches
    /\ latest = (IF batch = <<>> THEN 0 ELSE batch[Len(batch)].sequence)
    /\ lpeer = NoPeer
    /\ new_name = ""
    /\ nsent = 1
    /\ ndone = 0
    /\ written = [p \in PeerIds |-> 0]
    /\ batchFailed = FALSE
    /\ lastSend = "ok"
    /\ rpc_log = NoLog
    /\ str_in = <<>>
    /\ str_out = NoResult
    /\ marking = NoMark

NextStore ==
    \/ StoreBatch
    \/ GetPeer
    \/ AddPeer
    \/ \E k \in MsgIds : mark_post_read("A", k)
    \/ \E k \in MsgIds : mark_post_unread("A", k)

SpecStore == InitStore /\ [][NextStore]_vars

(***************************************************************************)
(* The subscribe and unsubscribe forms alone, with the history of their    *)
(* calls of follow_if_not_following and unfollow_if_following.             *)
(***************************************************************************)
InitForm ==
    /\ peers = [p \in {} |-> PeerNew]
    /\ posts = [k \in {} |-> PostNew(0, 0)]
    /\ following = [p \in PeerIds |-> FALSE]
    /\ feedLen = [p \in PeerIds |-> 0]
    /\ peer_msgs = <<>>
    /\ queue = <<>>
    /\ closed = FALSE
    /\ cancelId = 0
    /\ wstate = "Running"
    /\ pc = "recv"
    /\ cur = NoTask
    /\ after = 0
    /\ latest = 0
    /\ batch = <<>>
    /\ lpeer = NoPeer
    /\ new_name = ""
    /\ nsent = 0
    /\ ndone = 0
    /\ written = [p \in PeerIds |-> 0]
    /\ batchFailed = FALSE
    /\ lastSend = "none"
    /\ rpc_log = [on |-> TRUE, calls |-> <<>>]
    /\ str_in = <<>>
    /\ str_out = NoResult
    /\ marking = NoMark

NextForm ==
    \/ \E p \in FormKeys \cup BadKeys : subscribe_form(p)
    \/ \E p \in FormKeys \cup BadKeys : unsubscribe_form(p)

SpecForm == InitForm /\ [][NextForm]_vars

(***************************************************************************)
(* The functions of strings, each applied to any string.                   *)
(***************************************************************************)
\* Number of runs of a string.
MaxRuns == 4

StrRuns ==
    {<<"@", 1>>, <<".", 1>>, <<"ed25519", 1>>, <<"b", 1>>, <<"b", 43>>, <<"b", 44>>,
     <<"U+00E9", 1>>, <<"U+00E9", 22>>}

AnyStrings == UNION {[1..n -> StrRuns] : n \in 0..MaxRuns}

\* A string written with single characters.
IsText(s) == \A i \in 1..Len(s) : CharLen(s[i][1]) = 1

InitText ==
    /\ peers = [p \in {} |-> PeerNew]
    /\ posts = [k \in {} |-> PostNew(0, 0)]
    /\ following = [p \in PeerIds |-> FALSE]
    /\ feedLen = [p \in PeerIds |-> 0]
    /\ peer_msgs = <<>>
    /\ queue = <<>>
    /\ closed = FALSE
    /\ cancelId = 0
    /\ wstate = "Running"
    /\ pc = "recv"
    /\ cur = NoTask
    /\ after = 0
    /\ latest = 0
    /\ batch = <<>>
    /\ lpeer = NoPeer
    /\ new_name = ""
    /\ nsent = 0
    /\ ndone = 0
    /\ written = [p \in PeerIds |-> 0]
    /\ batchFailed = FALSE
    /\ lastSend = "none"
    /\ rpc_log = NoLog
    /\ str_in \in AnyStrings
    /\ str_out = NoResult
    /\ marking = NoMark

\* validate_public_key(str_in)
ValidateKey ==
    /\ str_out.fn = "none"
    /\ str_out' = [fn |-> "validate_public_key", val |-> validate_public_key(str_in)]
    /\ UNCHANGED <<store, sbotv, chan, cancelId, wstate, pc, cur, locals, ndone,
                   written, batchFailed, rpc_log, str_in, marking>>

\* get_root_posts on a root post whose text is str_in computes its subject.
TakeSubject ==
    /\ str_out.fn = "none"
    /\ IsText(str_in)
    /\ str_out' = [fn |-> "subject", val |-> subject(str_in)]
    /\ UNCHANGED <<store, sbotv, chan, cancelId, wstate, pc, cur, locals, ndone,
                   written, batchFailed, rpc_log, str_in, marking>>

NextText == ValidateKey \/ TakeSubject

SpecText == InitText /\ [][NextText]_vars

(***************************************************************************)
(* The task loop under FetchLatestPosts tasks for the stored peer A, with  *)
(* the delete route beside it.                                             *)
(***************************************************************************)
NextDelete ==
    \/ Recv
    \/ FetchStream
    \/ StoreBatch
    \/ GetPeer
    \/ AddPeer
    \/ Send("FetchLatestPosts", "A")
    \/ \E k \in MsgIds : delete_post("A", k)
    \/ Replicate("A")

SpecDelete == InitTwo /\ [][NextDelete]_vars

(***************************************************************************)
(* The task loop under fair scheduling: async-std runs the spawned task    *)
(* whenever it can take a step (a task is waiting in the channel, or an    *)
(* awaited call of the sbot or the store has returned).  A client sends    *)
(* tasks for the stored peer A, and the shutdown fairing sends Cancel.     *)
(***************************************************************************)
NextLive ==
    \/ Recv
    \/ FetchStream
    \/ StoreBatch
    \/ GetPeer
    \/ AddPeer
    \/ GetName
    \/ NameGetPeer
    \/ NameAddPeer
    \/ \E kind \in TaskKinds : Send(kind, "A")
    \/ Shutdown

SpecLive == InitTwo /\ [][NextLive]_vars /\ WF_vars(Worker)

(***************************************************************************)
(* The read / unread routes as the two store operations they are, beside   *)
(* the delete route and a fetch task that is about to store its batch.     *)
(***************************************************************************)
NextMark ==
    \/ StoreBatch
    \/ GetPeer
    \/ AddPeer
    \/ \E k \in MsgIds, read \in BOOLEAN : mark_get_post("A", k, read)
    \/ mark_add_post
    \/ \E k \in MsgIds : delete_post("A", k)

SpecMark == InitStore /\ [][NextMark]_vars

(***************************************************************************)
(* The claims.                                                             *)
(***************************************************************************)
\* The highest sequence among the posts stored for a peer, 0 without posts.
StoredSeqs(p) == {posts[k].sequence : k \in {x \in DOMAIN posts : x[1] = p}}

MaxStored(p) ==
    IF StoredSeqs(p) = {} THEN 0
    ELSE CHOOSE m \in StoredSeqs(p) : \A n \in StoredSeqs(p) : n <= m

\* The step of a fetch task that writes the peer record back.
FetchWritesPeer == pc = "addpeer" /\ pc' # "addpeer"

\* C1: the latest_sequence write of a fetch task never lowers the stored
\* latest_sequence of the peer, whatever the history stream held (a stream
\* without a root post included).
C1_WatermarkNeverDecreases ==
    [][FetchWritesPeer =>
          \A p \in DOMAIN peers \cap DOMAIN peers' :
             peers'[p].latest_sequence >= peers[p].latest_sequence]_vars

\* C2: in every reachable state the stored latest_sequence of a peer is at
\* most the highest sequence of a root post the task loop has successfully
\* written to the store for that peer (progress is never over-reported).
C2_NeverOverReported ==
    \A p \in DOMAIN peers : peers[p].latest_sequence <= written[p]

\* C3: when add_post_batch of a fetch task has failed, the task does not
\* change the peer record: latest_sequence stays as it was.
C3_FailedBatchLeavesWatermark ==
    [][(FetchWritesPeer /\ batchFailed) => peers' = peers]_vars

\* C4: no failure of a task stops the task loop: it is Running until it
\* dequeues a Cancel that was sent, and only then Stopped.
C4_OnlyCancelStopsLoop ==
    \/ wstate = "Running"
    \/ wstate = "Stopped" /\ cancelId # 0

\* C5: tasks run one at a time and in the order they were sent: the task in
\* flight is the oldest one not finished, every task sent before it is
\* finished, and the tasks sent after it wait in the channel in order.
C5_FifoOneAtATime ==
    /\ (cur = NoTask) <=> (pc \in {"recv", "exit"})
    /\ cur # NoTask => cur.id = ndone + 1
    /\ \A i \in 1..Len(queue) :
          queue[i].id = ndone + (IF cur = NoTask THEN 0 ELSE 1) + i

\* C5, its case: FetchLatestName(A), FetchAllPosts(B), FetchLatestName(A)
\* were sent; the first has updated the name of A, the fetch of B has stored
\* its posts and is about to write the peer, the second name task waits.
C5_Witness ==
    /\ cur = Task("FetchAllPosts", "B", 2)
    /\ pc = "addpeer"
    /\ ndone = 1
    /\ peers["A"].name = "n1"
    /\ has_post("B", 1)
    /\ queue = <<Task("FetchLatestName", "A", 3)>>

\* C6: once the loop has dequeued Cancel it is Stopped for good and runs
\* no task: it receives nothing and makes no sbot call and no store write.
C6_NoTaskAfterCancel ==
    [][wstate = "Stopped" =>
          UNCHANGED <<wstate, pc, cur, ndone, after, latest, batch, lpeer,
                      new_name, written, batchFailed>>]_vars

\* C6, its case: the loop is Stopped while a fetch task waits behind Cancel.
C6_Witness ==
    /\ wstate = "Stopped"
    /\ queue # <<>>
    /\ queue[1].kind = "FetchAllPosts"

\* C7: after the loop has terminated on Cancel, a send returns an error and
\* queues nothing (so no task sent then is ever executed).
C7_SendAfterCancelFails ==
    [][wstate = "Stopped" =>
          /\ queue' = queue
          /\ nsent' = nsent
          /\ (lastSend' # lastSend => lastSend' = "err")]_vars

\* C7, its case: the loop is Stopped and a send has returned an error.
C7_Witness ==
    /\ wstate = "Stopped"
    /\ cancelId # 0
    /\ lastSend = "err"

C9_WatermarkIsMaxStored ==
    pc = "recv" =>
       \A p \in DOMAIN peers : peers[p].latest_sequence = MaxStored(p)

\* C9 amended: latest_sequence of every peer is 0 or the sequence of a root
\* post of the peer's feed that the sbot has delivered; it is not tied to
\* the posts stored now.
C9_WatermarkIsRootPostSeq ==
    \A p \in DOMAIN peers :
       \/ peers[p].latest_sequence = 0
       \/ \E i \in 1..feedLen[p] :
             /\ MsgAt(i).sequence = peers[p].latest_sequence
             /\ MsgAt(i).type = "post"
             /\ ~MsgAt(i).root

\* C9, its case: between two tasks, the posts of the peer were fetched and
\* stored up to sequence 3, and the post of sequence 3 has been deleted.
C9_Witness ==
    /\ pc = "recv"
    /\ "A" \in DOMAIN peers
    /\ peers["A"].latest_sequence = 3
    /\ written["A"] = 3
    /\ ~has_post("A", 3)
    /\ MaxStored("A") = 1

\* C10: the batch write of a fetch task leaves every stored post that is
\* read stored and read.
C10_SyncKeepsReadFlag ==
    [][(pc = "batch" /\ pc' # "batch") =>
          \A k \in DOMAIN posts :
             posts[k].read => (k \in DOMAIN posts' /\ posts'[k].read)]_vars

\* The step in which the loop takes a task of the given kind out of the
\* channel.
Dequeues(kind) ==
    /\ pc = "recv"
    /\ queue # <<>>
    /\ Len(queue') < Len(queue)
    /\ Head(queue).kind = kind

\* C11: FetchLatestPosts reads latest_sequence of the peer as it is stored
\* when the task is dequeued and the history stream it then consumes is the
\* one after that sequence; when no peer record exists at that moment, the
\* task ends at once: no sbot call follows and the store is unchanged.
C11_LatestResumesAtWatermark ==
    [][/\ Dequeues("FetchLatestPosts") =>
            IF Head(queue).peer \in DOMAIN peers
            THEN \/ wstate' = "Panicked"
                 \/ /\ pc' = "stream"
                    /\ cur' = Head(queue)
                    /\ after' = peers[Head(queue).peer].latest_sequence
                    /\ store' = store
            ELSE /\ pc' \in {"recv", "exit"}
                 /\ cur' = NoTask
                 /\ store' = store
       /\ (pc = "stream" /\ pc' = "batch") =>
            \E s \in Streams(cur.peer, after) :
               /\ batch' = get_root_posts(s)[2]
               /\ latest' = get_root_posts(s)[1]]_vars

\* C11, its case: FetchLatestPosts is in flight for a peer whose posts were
\* fetched up to sequence 1, and is about to ask for the stream after 1.
C11_Witness ==
    /\ cur.kind = "FetchLatestPosts"
    /\ pc = "stream"
    /\ after = 1
    /\ cur.peer \in DOMAIN peers
    /\ peers[cur.peer].latest_sequence = 1

NotErr(m) == m.type # "err"

KeepRoot(m) == m.type = "post" /\ ~m.root

\* The post records of a sequence of messages, in the same order.
ToPosts(s) == [i \in 1..Len(s) |-> PostNew(s[i].key, s[i].sequence)]

\* The root posts among the elements of a stream.
RootMsgs(s) == {s[i] : i \in {j \in 1..Len(s) : KeepRoot(s[j])}}

SetMax(S) == IF S = {} THEN 0 ELSE CHOOSE m \in S : \A n \in S : n <= m

\* A stream in feed order: the sequence numbers of its messages ascend.
Ascending(s) == \A i, j \in 1..Len(s) : i < j => s[i].sequence < s[j].sequence

InFeedOrder(s) == Ascending(SelectSeq(s, NotErr))

\* C14: when FetchAllPosts for a subscribed peer without stored posts has
\* consumed a stream in feed order (root posts, replies, other messages),
\* stored its batch and written the peer, the posts stored are exactly the
\* root posts of the stream, one record per key, and latest_sequence is the
\* largest sequence among them.
C14_FetchAllStoresRootPosts ==
    [][(/\ pc = "addpeer"
        /\ pc' = "recv"
        /\ cur.kind = "FetchAllPosts"
        /\ ~batchFailed
        /\ InFeedOrder(peer_msgs)) =>
          /\ DOMAIN posts' = {<<cur.peer, m.key>> : m \in RootMsgs(peer_msgs)}
          /\ \A m \in RootMsgs(peer_msgs) :
                posts'[<<cur.peer, m.key>>] = PostNew(m.key, m.sequence)
          /\ peers'[cur.peer].latest_sequence =
                SetMax({m.sequence : m \in RootMsgs(peer_msgs)})]_vars

\* C14, its case: the stream held root posts of sequence 1 and 3 and a reply
\* of sequence 2; two posts are stored and latest_sequence 3 is being
\* written.
C14_Witness ==
    /\ cur.kind = "FetchAllPosts"
    /\ pc = "addpeer"
    /\ peer_msgs = <<[key |-> 1, sequence |-> 1, type |-> "post", root |-> FALSE],
                     [key |-> 2, sequence |-> 2, type |-> "post", root |-> TRUE],
                     [key |-> 3, sequence |-> 3, type |-> "post", root |-> FALSE]>>
    /\ DOMAIN posts = {<<"A", 1>>, <<"A", 3>>}
    /\ lpeer.latest_sequence = 3

\* C15: the posts get_root_posts returns are the messages of the stream of
\* type post without a root, each as often as the stream holds it and in
\* the order of arrival; replies and other messages are dropped.
C15_FilterKeepsRootPostsInOrder ==
    pc = "batch" => batch = ToPosts(SelectSeq(peer_msgs, KeepRoot))

\* C15, its case: a reply, then the root post of sequence 3, then the root
\* post of sequence 1: the two root posts are returned in that order.
C15_Witness ==
    /\ pc = "batch"
    /\ peer_msgs = <<[key |-> 2, sequence |-> 2, type |-> "post", root |-> TRUE],
                     [key |-> 3, sequence |-> 3, type |-> "post", root |-> FALSE],
                     [key |-> 1, sequence |-> 1, type |-> "post", root |-> FALSE]>>
    /\ Len(batch) = 2
    /\ batch[1].sequence = 3
    /\ batch[2].sequence = 1

\* C16: the latest_sequence get_root_posts returns is the largest sequence
\* among the root posts it returns, in whatever order they arrived, and 0
\* when it returns none.
C16_WatermarkIsMaxOfIncluded ==
    pc = "batch" => latest = SetMax({batch[i].sequence : i \in 1..Len(batch)})

\* C17: error elements are skipped: get_root_posts returns for a stream
\* what it returns for the stream without its error elements.
C17_ErrorsAreSkipped ==
    pc = "batch" =>
       <<latest, batch>> = get_root_posts(SelectSeq(peer_msgs, NotErr))

\* C17, its case: an error element between two root posts; both posts are
\* returned.
C17_Witness ==
    /\ pc = "batch"
    /\ peer_msgs = <<[key |-> 1, sequence |-> 1, type |-> "post", root |-> FALSE],
                     ErrElem,
                     [key |-> 3, sequence |-> 3, type |-> "post", root |-> FALSE]>>
    /\ Len(batch) = 2
    /\ latest = 3

\* A stream element the fetch has asked for: its sequence is above
\* after_sequence.
InRange(m) == m.type = "err" \/ m.sequence > after

\* C18: a fetch of the latest posts ignores a message whose sequence is not
\* above the after_sequence it asked for: its result is that of the stream
\* without such messages, and no post of such a sequence is stored.
C18_OutOfRangeIgnored ==
    [][/\ (pc = "stream" /\ pc' = "batch") =>
             <<latest', batch'>> = get_root_posts(SelectSeq(peer_msgs, InRange))
       /\ (pc = "batch" /\ pc' # pc /\ cur.kind = "FetchLatestPosts") =>
             \A k \in DOMAIN posts' :
                posts'[k].sequence > peers[cur.peer].latest_sequence]_vars

\* The keys under which the batch of the task in flight is stored.
BatchKeys == {<<cur.peer, batch[i].key>> : i \in 1..Len(batch)}

\* C19: a write of a post under a key the post tree already holds replaces
\* the record: after add_post_batch the tree holds one record for each key
\* of the batch, equal to the last post of the batch with that key, the
\* other records are as before, and the number of records has not grown
\* when all keys were there; add_post of a route on a stored post changes
\* that one record and no key.
C19_RestoreOverwrites ==
    [][/\ (pc = "batch" /\ pc' # pc /\ ~batchFailed') =>
             /\ DOMAIN posts' = DOMAIN posts \cup BatchKeys
             /\ \A i \in 1..Len(batch) :
                   (\A j \in (i + 1)..Len(batch) : batch[j].key # batch[i].key)
                      => posts'[<<cur.peer, batch[i].key>>] = batch[i]
             /\ \A k \in DOMAIN posts \ BatchKeys : posts'[k] = posts[k]
             /\ BatchKeys \subseteq DOMAIN posts =>
                   Cardinality(DOMAIN posts') = Cardinality(DOMAIN posts)
       /\ (pc' = pc /\ posts' # posts /\ DOMAIN posts \subseteq DOMAIN posts') =>
             /\ DOMAIN posts' = DOMAIN posts
             /\ \E k \in DOMAIN posts :
                   /\ posts'[k] = [posts[k] EXCEPT !.read = ~posts[k].read]
                   /\ \A x \in DOMAIN posts \ {k} : posts'[x] = posts[x]]_vars

\* C19, its case: the posts of sequence 1 and 2 were stored and read; the
\* batch held the post of sequence 1 and nothing above it, and has been
\* stored: there are still two records and the one of sequence 1 is the
\* unread post of the batch.
C19_Witness ==
    /\ pc = "getpeer"
    /\ ~batchFailed
    /\ written["A"] = 1
    /\ DOMAIN posts = {<<"A", 1>>, <<"A", 2>>}
    /\ posts[<<"A", 1>>] = PostNew(1, 1)
    /\ posts[<<"A", 2>>].read

\* C20: a step that removes a peer record leaves the post tree as it is
\* (every post of the peer is still there, unchanged) and changes no other
\* peer record.
C20_RemovePeerKeepsPosts ==
    [][(\E p \in DOMAIN peers : p \notin DOMAIN peers') =>
          /\ posts' = posts
          /\ \A q \in DOMAIN peers' : q \in DOMAIN peers /\ peers'[q] = peers[q]]_vars

\* C20, its case: the peer was unsubscribed and its record removed; its post
\* of sequence 1 is still stored.
C20_Witness ==
    /\ "A" \notin DOMAIN peers
    /\ ~following["A"]
    /\ has_post("A", 1)
    /\ posts[<<"A", 1>>] = [key |-> 1, sequence |-> 1, read |-> TRUE]

\* The calls of follow_if_not_following and unfollow_if_following so far.
Calls == rpc_log.calls

\* Two calls of the function call, one right after the other, for the same
\* peer and with nothing going wrong in the sbot, the first of them finding
\* the follow status first.
TwoInARow(i, call, first) ==
    /\ i + 1 \in 1..Len(Calls)
    /\ Calls[i].call = call /\ Calls[i + 1].call = call
    /\ Calls[i].peer = Calls[i + 1].peer
    /\ Calls[i].fault = "none" /\ Calls[i + 1].fault = "none"
    /\ Calls[i].status = first

\* C21: follow_if_not_following calls follow_peer only when the follow
\* status is "false"; when the status is "true" it calls nothing and returns
\* Ok.  So of two calls in a row for a peer that is not followed, the first
\* calls follow_peer, the second does not, and both return Ok.
C21_FollowOnlyWhenNotFollowed ==
    /\ \A i \in 1..Len(Calls) :
          Calls[i].call = "follow" =>
             /\ Calls[i].rpc => Calls[i].status = "false"
             /\ Calls[i].status = "true" => ~Calls[i].rpc /\ Calls[i].ok
    /\ \A i \in 1..Len(Calls) :
          TwoInARow(i, "follow", "false") =>
             /\ Calls[i].rpc /\ Calls[i].ok
             /\ ~Calls[i + 1].rpc /\ Calls[i + 1].ok

\* Two calls of follow_if_not_following in a row for a peer that was not
\* followed.
C21_Witness ==
    \E i \in 1..Len(Calls) : TwoInARow(i, "follow", "false")

\* C22: unfollow_if_following is the mirror image: when the follow status is
\* "false" it calls nothing and returns Ok, so of two calls in a row for a
\* followed peer the first calls unfollow_peer and the second is a no-op
\* that returns Ok.
C22_UnfollowIsMirror ==
    /\ \A i \in 1..Len(Calls) :
          Calls[i].call = "unfollow" =>
             /\ Calls[i].rpc => Calls[i].status = "true"
             /\ Calls[i].status = "false" => ~Calls[i].rpc /\ Calls[i].ok
    /\ \A i \in 1..Len(Calls) :
          TwoInARow(i, "unfollow", "true") =>
             /\ Calls[i].rpc /\ Calls[i].ok
             /\ ~Calls[i + 1].rpc /\ Calls[i + 1].ok

\* C23: when the whoami call fails, the isFollowing call fails or
\* isFollowing returns neither "true" nor "false", both functions return an
\* error and call neither follow_peer nor unfollow_peer.
C23_NoBlindFollow ==
    \A i \in 1..Len(Calls) :
       Calls[i].status \notin {"true", "false"} => ~Calls[i].ok /\ ~Calls[i].rpc

\* Both functions have been called with the status check failing: one with
\* whoami failing, one with isFollowing failing, one with another answer.
C23_Witness ==
    /\ \E i \in 1..Len(Calls) :
          Calls[i].call = "follow" /\ Calls[i].status = "whoami_err"
    /\ \E i \in 1..Len(Calls) :
          Calls[i].call = "unfollow" /\ Calls[i].status = "err"
    /\ \E i \in 1..Len(Calls) : Calls[i].status = "garbage"

\* C24: the worker is the only writer of the store: every step that changes
\* a peer or post record is a step of the task loop, none is a step of a
\* route (the routes leave pc alone, every writing step of the loop moves
\* it).
C24_WorkerIsOnlyWriter ==
    [][(peers' # peers \/ posts' # posts) => pc' # pc]_vars

\* C27: a task of the worker never re-creates a peer record: a peer that is
\* absent from the store (never subscribed, or removed by unsubscribe)
\* stays absent through every step of the task loop, also when a task for
\* the peer was between its get_peer and its add_peer at the removal.  Only
\* a step of a route (subscribe), which leaves pc alone, creates a record.
C27_WorkerNeverRecreatesPeer ==
    [][\A p \in PeerIds :
          (p \notin DOMAIN peers /\ p \in DOMAIN peers') => pc' = pc]_vars

\* A string as the claims describe a public key: it starts with '@', ends
\* with ".ed25519", and has 44 characters between the '@' and the dot of
\* that ending.
WellFormedKey(s) ==
    /\ Len(s) >= 3
    /\ s[1][1] = "@"
    /\ s[Len(s)] = <<"ed25519", 1>> /\ s[Len(s) - 1][1] = "."
    /\ CharCount(s) = 1 + 44 + 1 + 7

\* C25: validate_public_key returns Ok exactly for the strings that start
\* with '@', end with ".ed25519" and have exactly 44 characters between the
\* '@' and the final dot, and an error for every other string.
C25_OkExactlyForWellFormedKeys ==
    str_out.fn = "validate_public_key" =>
       (str_out.val = "ok" <=> WellFormedKey(str_in))

\* The first k characters of a string (all of it when it is shorter).
RECURSIVE TakeChars(_, _)
TakeChars(s, k) ==
    IF k = 0 \/ s = <<>> THEN <<>>
    ELSE IF Head(s)[2] <= k THEN <<Head(s)>> \o TakeChars(Tail(s), k - Head(s)[2])
    ELSE <<<<Head(s)[1], k>>>>

\* A string with neighbouring runs of the same character joined.
RECURSIVE Joined(_)
Joined(s) ==
    IF Len(s) < 2 THEN s
    ELSE IF s[1][1] = s[2][1]
         THEN Joined(<<<<s[1][1], s[1][2] + s[2][2]>>>> \o SubSeq(s, 3, Len(s)))
    ELSE <<s[1]>> \o Joined(Tail(s))

\* C26: the subject of a root post is the first 52 characters of its text
\* (the whole text when that is shorter) whenever the text is not empty, and
\* None only when the text is empty.
C26_SubjectIsFirstCharacters ==
    str_out.fn = "subject" =>
       IF str_in = <<>> THEN str_out.val = <<>>
       ELSE /\ str_out.val # <<>>
            /\ Joined(str_out.val[1]) = Joined(TakeChars(str_in, 52))

\* The step appends a call of the function call to the history.
CallMade(call) ==
    /\ Len(Calls') = Len(Calls) + 1
    /\ Calls'[Len(Calls')].call = call

\* C28: subscribe_form writes the peer record and sends FetchAllPosts only
\* after follow_if_not_following returned Ok; when that returns an error
\* the store is unchanged and no task is sent; and FetchAllPosts is sent
\* only when the peer record has been written.
C28_SubscribeWritesAfterFollow ==
    [][CallMade("follow") =>
          LET call == Calls'[Len(Calls')]
          IN  /\ (peers' # peers \/ queue' # queue) => call.ok
              /\ ~call.ok => store' = store /\ chan' = chan
              /\ queue' # queue =>
                    /\ call.peer \in DOMAIN peers'
                    /\ peers'[call.peer].latest_sequence = 0
                    /\ queue' = Append(queue, Task("FetchAllPosts", call.peer, nsent + 1))]_vars

\* Two subscribe requests for A: the follow step of one failed, that of the
\* other succeeded; the record is written and one FetchAllPosts is queued.
C28_Witness ==
    /\ \E i \in 1..Len(Calls) : Calls[i].call = "follow" /\ ~Calls[i].ok
    /\ \E i \in 1..Len(Calls) : Calls[i].call = "follow" /\ Calls[i].ok
    /\ "A" \in DOMAIN peers
    /\ queue = <<Task("FetchAllPosts", "A", 1)>>

\* C29: unsubscribe_form removes the peer record only after
\* unfollow_if_following returned Ok, and every peer record in the store can
\* be removed by unsubscribe when the sbot answers, whatever the follow
\* status of the peer: for every stored peer a step of unsubscribe_form
\* that removes its record is possible.
C29_EveryPeerCanBeRemoved ==
    \A p \in DOMAIN peers :
       ENABLED (unsubscribe_form(p) /\ p \notin DOMAIN peers')

\* C30: a post removed by delete_post is not re-created by later
\* FetchLatestPosts tasks for the peer: a post that appears in the store has
\* a sequence above every sequence stored for the peer before, and so above
\* the watermark recorded when any earlier post was ingested.
C30_DeletedPostStaysDeleted ==
    [][\A k \in DOMAIN posts' \ DOMAIN posts :
          posts'[k].sequence > written[k[1]]]_vars

\* The numbers the tasks of one run are sent under.
TaskIds == 1..(MaxSends + 1)

\* Task number i has been sent, and before Cancel.
SentBeforeCancel(i) == nsent >= i /\ (cancelId = 0 \/ i < cancelId)

\* Cancel has been sent and the channel accepted it.
CancelSent == cancelId # 0 /\ nsent >= cancelId

\* C31: when every call of the sbot and every history stream terminates and
\* the task loop is scheduled fairly, every task sent before Cancel is
\* eventually received and executed to its end (the loop comes back to
\* receive, or receives Cancel, with the task behind it), and once Cancel
\* has been sent the loop eventually is Stopped.
C31_TasksRunAndLoopStops ==
    /\ \A i \in TaskIds :
          SentBeforeCancel(i) ~> (ndone >= i /\ wstate # "Panicked")
    /\ CancelSent ~> (wstate = "Stopped")

\* C32: the peer updates of the worker change one field of one record: in
\* the step in which a fetch task writes the peer record the name of that
\* peer stays as it is in the store, in the step in which FetchLatestName
\* writes it the latest_sequence stays, and in both steps every other peer
\* record and every post stays.
C32_PeerUpdateChangesOneField ==
    [][(pc \in {"addpeer", "name_addpeer"} /\ pc' # pc) =>
          /\ posts' = posts
          /\ \A q \in (DOMAIN peers \cup DOMAIN peers') \ {cur.peer} :
                q \in DOMAIN peers /\ q \in DOMAIN peers' /\ peers'[q] = peers[q]
          /\ (cur.peer \in DOMAIN peers /\ cur.peer \in DOMAIN peers') =>
                /\ pc = "addpeer" => peers'[cur.peer].name = peers[cur.peer].name
                /\ pc = "name_addpeer" =>
                      peers'[cur.peer].latest_sequence = peers[cur.peer].latest_sequence]_vars

\* C33: mark_post_read / mark_post_unread change only the read flag of the
\* addressed post: their write leaves the peers, every other post and the
\* other fields of the addressed post as they are in the store, and creates
\* no record (a post that does not exist is not written).
C33_MarkChangesOnlyReadFlag ==
    [][(marking # NoMark /\ marking' = NoMark) =>
          LET k == <<marking.public_key, marking.post[1].key>>
          IN  /\ peers' = peers
              /\ DOMAIN posts' = DOMAIN posts
              /\ \A j \in DOMAIN posts \ {k} : posts'[j] = posts[j]
              /\ k \in DOMAIN posts =>
                    posts'[k] \in {posts[k], [posts[k] EXCEPT !.read = marking.post[1].read]}]_vars

\* C34: sending a task never blocks the caller and never fails while the
\* task loop is Running: whatever the number of tasks waiting and wherever
\* the loop is in the task in flight, a send is possible at once, returns Ok
\* and puts the task at the end of the queue; a send has failed only when
\* the loop was not Running any more.
C34_SendNeverBlocksNorFails ==
    /\ lastSend = "err" => wstate # "Running"
    /\ (wstate = "Running" /\ nsent < MaxSends) =>
          \A kind \in TaskKinds, p \in PeerIds :
             ENABLED (/\ Send(kind, p)
                      /\ lastSend' = "ok"
                      /\ queue' = Append(queue, Task(kind, p, nsent + 1)))

\* The loop is Running in the middle of a task, two tasks are waiting, and
\* the last send returned Ok.
C34_Witness ==
    /\ wstate = "Running"
    /\ pc \notin {"recv", "exit"}
    /\ Len(queue) >= 2
    /\ lastSend = "ok"

=============================================================================
